---- MODULE Spec2Model ----
(***************************************************************************)
(* Model of fastapi_nodnod/core.py: the nodnod_route decorator, the        *)
(* per-request wrapper (_resolve) and the shared-scope wrapper, together   *)
(* with the contract of the nodnod Scope and EventLoopAgent it drives.     *)
(***************************************************************************)
EXTENDS Integers, Sequences, FiniteSets, TLC

\* Number of requests one behaviour serves (possibly interleaved).
MaxReq == 2

Reqs == 1..MaxReq

----------------------------------------------------------------------------
\* Values.  Every value is a record of the same shape so that any two
\* values can be compared.

None == [k |-> "none", i |-> 0, s |-> ""]
IntV(n) == [k |-> "int", i |-> n, s |-> ""]
StrV(x) == [k |-> "str", i |-> 0, s |-> x]
\* The ambient request object: its identity and its x-user header.
ReqV(r, hdr) == [k |-> "req", i |-> r, s |-> hdr]
\* A FlagService instance / a Flags value computed by a service for a user.
SvcV(n) == [k |-> "svc", i |-> n, s |-> ""]
FlagsV(svc, user) == [k |-> "flags", i |-> svc.i, s |-> user.s]

\* Keyword-argument dictionaries: functions from parameter names to values.
EmptyDict == [x \in {} |-> None]
Put(d, key, v) == [x \in (DOMAIN d) \cup {key} |-> IF x = key THEN v ELSE d[x]]

----------------------------------------------------------------------------
\* Node declarations used by the tests and the examples, and two more
\* generator nodes in the style of Res: Tx, which needs Res, and Lock.

NodeNames == {"A", "B", "Counter", "Res", "Async", "CurrentUser", "UserFlags", "Tx", "Lock"}

\* Keys of a scope: node types, the Request type, and plain classes pushed
\* by the application.
Types == NodeNames \cup {"Request", "FlagService"}

\* Parameter types of each node's __compose__.
Deps(n) ==
    CASE n = "A" -> {}
      [] n = "B" -> {"A"}
      [] n = "Counter" -> {}
      [] n = "Res" -> {}
      [] n = "Async" -> {"Request"}
      [] n = "CurrentUser" -> {"Request"}
      [] n = "UserFlags" -> {"CurrentUser", "FlagService"}
      [] n = "Tx" -> {"Res"}
      [] n = "Lock" -> {}

\* "sync": plain function, "async": coroutine function, "gen": generator.
Style(n) ==
    CASE n \in {"Res", "Tx", "Lock"} -> "gen"
      [] n = "Async" -> "async"
      [] OTHER -> "sync"

\* The node types reachable from a set of requested node types.
RECURSIVE Closure(_)
Closure(S) ==
    LET next == S \cup ((UNION {Deps(n) : n \in S}) \cap NodeNames)
    IN  IF next = S THEN S ELSE Closure(next)

----------------------------------------------------------------------------
\* Handlers given to nodnod_route.  A parameter annotation is a class that
\* is a Node ("node"), a typing generic alias around a class ("generic",
\* e.g. Optional[A]), the Request class ("request") or another class
\* ("plain", e.g. int).

P(name, kind, of) == [name |-> name, kind |-> kind, of |-> of]

Handlers ==
    { [name |-> "chain", params |-> <<P("b", "node", "B")>>,
       is_async |-> TRUE, scope |-> "none"],
      [name |-> "cleanup", params |-> <<P("r", "node", "Res")>>,
       is_async |-> TRUE, scope |-> "none"],
      [name |-> "cleanup2", params |-> <<P("r", "node", "Res"), P("a", "node", "Async")>>,
       is_async |-> TRUE, scope |-> "none"],
      [name |-> "gens", params |-> <<P("t", "node", "Tx"), P("l", "node", "Lock")>>,
       is_async |-> FALSE, scope |-> "none"],
      [name |-> "indep", params |-> <<P("a", "node", "Async"), P("c", "node", "Counter")>>,
       is_async |-> TRUE, scope |-> "none"],
      [name |-> "mixed", params |-> <<P("n", "plain", "int"), P("m", "node", "A")>>,
       is_async |-> FALSE, scope |-> "none"],
      [name |-> "withreq", params |-> <<P("request", "request", "Request"), P("u", "node", "CurrentUser")>>,
       is_async |-> TRUE, scope |-> "none"],
      [name |-> "withreq2", params |-> <<P("req", "request", "Request"), P("m", "node", "A")>>,
       is_async |-> TRUE, scope |-> "none"],
      [name |-> "config", params |-> <<P("user", "node", "CurrentUser"), P("flags", "node", "UserFlags")>>,
       is_async |-> TRUE, scope |-> "shared"],
      [name |-> "passthrough", params |-> <<P("page", "plain", "int")>>,
       is_async |-> TRUE, scope |-> "none"],
      [name |-> "opt", params |-> <<P("o", "generic", "A")>>,
       is_async |-> TRUE, scope |-> "none"],
      [name |-> "optmix", params |-> <<P("o", "generic", "A"), P("m", "node", "A")>>,
       is_async |-> TRUE, scope |-> "none"] }

ParamNames(fn) == {fn.params[j].name : j \in DOMAIN fn.params}
ParamOf(fn, name) == CHOOSE p \in {fn.params[j] : j \in DOMAIN fn.params} : p.name = name

\* isinstance(ann, type): true of classes, false of typing generic aliases.
isinstance_type(ann) == ann.kind \in {"node", "plain", "request"}

\* issubclass(ann, Node)
issubclass_Node(ann) == ann.kind = "node"

\* Variant that looks through a generic alias.
is_node_unwrapping(ann) ==
    ann.kind = "node" \/ (ann.kind = "generic" /\ ann.of \in NodeNames)

is_node(ann) == isinstance_type(ann) /\ issubclass_Node(ann)

\* decorator: the dict name -> node type of the node-injected parameters.
node_params(fn) ==
    [name \in {fn.params[j].name : j \in {i \in DOMAIN fn.params : is_node(fn.params[i])}}
        |-> ParamOf(fn, name).of]

\* decorator: the parameters of the replacement signature.
new_params(fn) ==
    LET np == node_params(fn)
        keep(p) == p.name \notin DOMAIN np /\ p.name # "request"
    IN  SelectSeq(fn.params, keep) \o <<P("request", "request", "Request")>>

NoAgent == [built |-> FALSE, targets |-> {}, closure |-> {}]

\* EventLoopAgent.build(types)
build(types) == [built |-> TRUE, targets |-> types, closure |-> Closure(types)]

\* Variant without the early return for a handler without node parameters.
decorator_always_wraps(fn) ==
    LET np == node_params(fn)
    IN  [fn |-> fn, wrapped |-> TRUE,
         agent |-> build({np[x] : x \in DOMAIN np}),
         node_params |-> np, sig |-> new_params(fn), scope |-> fn.scope]

\* nodnod_route(...)(fn): what the decorator returns for handler fn.
decorator(fn) ==
    LET np == node_params(fn)
    IN  IF DOMAIN np = {}
        THEN [fn |-> fn, wrapped |-> FALSE, agent |-> NoAgent,
              node_params |-> np, sig |-> fn.params, scope |-> "none"]
        ELSE [fn |-> fn, wrapped |-> TRUE,
              agent |-> build({np[x] : x \in DOMAIN np}),
              node_params |-> np, sig |-> new_params(fn), scope |-> fn.scope]

----------------------------------------------------------------------------
\* State.

VARIABLES
    routes,     \* handler name -> what nodnod_route returned for it
    builds,     \* number of EventLoopAgent.build calls so far
    shared,     \* the NodnodScope objects: scope id -> (type -> value)
    lastSet,    \* per NodnodScope and type: the value of the latest set call
    counter,    \* the nonlocal counter of the Counter node
    pc,         \* per request: position of its task
    hn,         \* per request: name of the route it hits
    request,    \* per request: the ambient request object
    fwargs,     \* per request: keyword arguments the framework passes to the route callable
    scope,      \* per request: its request scope
    started,    \* per request: nodes whose __compose__ has been entered
    inflight,   \* per request: nodes whose coroutine __compose__ is suspended
    ncomposed,  \* per request scope and node: number of times __compose__ was entered
    called,     \* per request: the call func(**resolved), once made
    hres,       \* per request: how the handler ended
    leaving,    \* per request: the result or exception leaving the async-with body
    outcome,    \* per request: what the route callable gave back to the framework
    cleanLog    \* per request: post-yield cleanups run, in order

vars == <<routes, builds, shared, lastSet, counter, pc, hn, request, fwargs, scope,
          started, inflight, ncomposed, called, hres, leaving, outcome, cleanLog>>

NoVals == [t \in Types |-> None]
\* A scope: its mapping, its pending cleanups (a stack), and the nodes that
\* registered a cleanup in it, in the order they did.
NoScope == [state |-> "absent", parent |-> "none", vals |-> NoVals, cleanups |-> <<>>,
            acquired |-> <<>>]
NotCalled == [made |-> FALSE, args |-> EmptyDict]
NoResult == [kind |-> "pending", val |-> EmptyDict, err |-> ""]
Returned(v) == [kind |-> "result", val |-> v, err |-> ""]
Raised(e) == [kind |-> "error", val |-> EmptyDict, err |-> e]

\* Scope(detail=...)
Scope == [state |-> "new", parent |-> "none", vals |-> NoVals, cleanups |-> <<>>,
          acquired |-> <<>>]

\* parent.create_child(detail=...)
create_child == [state |-> "new", parent |-> "shared", vals |-> NoVals, cleanups |-> <<>>,
                 acquired |-> <<>>]

\* scope.push(Value(t, v))
push(sc, t, v) == [sc EXCEPT !.vals[t] = v]

\* The same on the mapping of a scope without parent.
push_value(vals, t, v) == [vals EXCEPT ![t] = v]

\* scope.retrieve(t): the local mapping first, then the parent chain.
retrieve(sc, t) ==
    IF sc.vals[t] # None THEN sc.vals[t]
    ELSE IF sc.parent # "none" THEN shared[sc.parent][t]
    ELSE None

\* The NodnodScope objects made by create_scope(): the one given to
\* nodnod_route(scope=...) and another one.
ScopeIds == {"shared", "other"}

\* The scopes after the setup code of the module: scope.set(FlagService, ...).
SetupScopes ==
    [s \in ScopeIds |-> IF s = "shared" THEN [NoVals EXCEPT !["FlagService"] = SvcV(1)] ELSE NoVals]

Init ==
    /\ routes = EmptyDict
    /\ builds = 0
    /\ shared = SetupScopes
    /\ lastSet = SetupScopes
    /\ counter = 0
    /\ pc = [r \in Reqs |-> "idle"]
    /\ hn = [r \in Reqs |-> "-"]
    /\ request = [r \in Reqs |-> None]
    /\ fwargs = [r \in Reqs |-> EmptyDict]
    /\ scope = [r \in Reqs |-> NoScope]
    /\ started = [r \in Reqs |-> {}]
    /\ inflight = [r \in Reqs |-> {}]
    /\ ncomposed = [r \in Reqs |-> [n \in NodeNames |-> 0]]
    /\ called = [r \in Reqs |-> NotCalled]
    /\ hres = [r \in Reqs |-> NoResult]
    /\ leaving = [r \in Reqs |-> NoResult]
    /\ outcome = [r \in Reqs |-> NoResult]
    /\ cleanLog = [r \in Reqs |-> <<>>]

reqvars == <<pc, hn, request, fwargs, scope, started, inflight, ncomposed, called,
             hres, leaving, outcome, cleanLog>>

----------------------------------------------------------------------------
\* Setup: shared-scope pushes and route registration.

\* Variant in which all NodnodScope objects wrap one and the same Scope.
set_on_common_scope(s, t, v) ==
    /\ \A r \in Reqs : pc[r] = "idle"
    /\ shared' = [x \in ScopeIds |-> push_value(shared[x], t, v)]
    /\ lastSet' = [lastSet EXCEPT ![s][t] = v]
    /\ UNCHANGED <<routes, builds, counter, reqvars>>

\* NodnodScope.set(type_, value) on the NodnodScope s.
set(s, t, v) ==
    /\ \A r \in Reqs : pc[r] = "idle"
    /\ shared' = [shared EXCEPT ![s] = push_value(@, t, v)]
    /\ lastSet' = [lastSet EXCEPT ![s][t] = v]
    /\ UNCHANGED <<routes, builds, counter, reqvars>>

\* NodnodScope.get(type_) on the NodnodScope s: the value, or None.
get(s, t) == shared[s][t]

\* @nodnod_route / @nodnod_route(scope=...) applied to fn.
Register(fn) ==
    /\ \A r \in Reqs : pc[r] = "idle"
    /\ DOMAIN routes = {}
    /\ LET rt == decorator(fn)
       IN  /\ routes' = Put(routes, fn.name, rt)
           /\ builds' = IF rt.agent.built THEN builds + 1 ELSE builds
    /\ UNCHANGED <<shared, lastSet, counter, reqvars>>

----------------------------------------------------------------------------
\* A request.

Rt(r) == routes[hn[r]]

\* Variant with one scope object for all the requests of a route.
scope_of_route(r) == 1

\* The scope object of request r: every call of _resolve makes its own.
scope_of(r) == r

\* The x-user header of a request: absent or present where a node of the
\* route reads it, present elsewhere.
Headers == {"", "alice", "bob"}
HeadersFor(rt) == IF "CurrentUser" \in rt.agent.closure THEN Headers ELSE {"alice"}
Pages == {1, 5}

\* The host framework binds every parameter of the exposed signature: the
\* ambient request for a Request-typed one, a query value for a plain one.
framework_args(sig, rq, page) ==
    [name \in {sig[j].name : j \in DOMAIN sig} |->
        LET p == CHOOSE q \in {sig[j] : j \in DOMAIN sig} : q.name = name
        IN  CASE p.kind = "request" -> rq
              [] p.kind = "plain" -> IntV(page)
              [] OTHER -> None]

\* wrapper(request, **kwargs): the keyword arguments other than request.
wrapper_kwargs(args) == [x \in (DOMAIN args) \ {"request"} |-> args[x]]

\* Variant that ignores the configured shared scope.
request_scope_standalone(rt) == Scope

\* _resolve: the request scope.
request_scope(rt) == IF rt.scope # "none" THEN create_child ELSE Scope

\* The call func(**resolved) and how far it gets without suspending:
\* a TypeError when the arguments do not fit the parameters, a coroutine
\* (awaited by the caller) for an async handler, a result or an
\* exception for a plain one.
CallHandler(r, fn, args, after) ==
    /\ called' = [called EXCEPT ![r] = [made |-> TRUE, args |-> args]]
    /\ IF DOMAIN args # ParamNames(fn)
       THEN /\ hres' = [hres EXCEPT ![r] = Raised("TypeError")]
            /\ pc' = [pc EXCEPT ![r] = after]
       ELSE IF fn.is_async
       THEN /\ hres' = hres
            /\ pc' = [pc EXCEPT ![r] = "handler"]
       ELSE /\ \E ok \in BOOLEAN :
                 hres' = [hres EXCEPT ![r] = IF ok THEN Returned(args) ELSE Raised("HandlerError")]
            /\ pc' = [pc EXCEPT ![r] = after]

\* Variant that compiles the agent again on every call of a wrapped route.
Call_building_agent(r, name, hdr, page) ==
    /\ pc[r] = "idle"
    /\ name \in DOMAIN routes
    /\ LET rt == routes[name]
           rq == ReqV(r, hdr)
           fa == framework_args(rt.sig, rq, page)
       IN  /\ hn' = [hn EXCEPT ![r] = name]
           /\ request' = [request EXCEPT ![r] = rq]
           /\ fwargs' = [fwargs EXCEPT ![r] = fa]
           /\ IF rt.wrapped
              THEN /\ scope' = [scope EXCEPT ![scope_of(r)] = request_scope(rt)]
                   /\ pc' = [pc EXCEPT ![r] = "created"]
                   /\ builds' = builds + 1
                   /\ UNCHANGED <<called, hres, leaving, outcome>>
              ELSE /\ CallHandler(r, rt.fn, fa, "done")
                   /\ outcome' = [outcome EXCEPT ![r] = hres'[r]]
                   /\ UNCHANGED <<scope, leaving, builds>>
    /\ UNCHANGED <<routes, shared, lastSet, counter, started, ncomposed, inflight, cleanLog>>

\* The framework calls the route callable.  For a wrapped route this is
\* wrapper -> _resolve up to the creation of the request scope; for an
\* unwrapped one it is the handler itself.
Call(r, name, hdr, page) ==
    /\ pc[r] = "idle"
    /\ name \in DOMAIN routes
    /\ LET rt == routes[name]
           rq == ReqV(r, hdr)
           fa == framework_args(rt.sig, rq, page)
       IN  /\ hn' = [hn EXCEPT ![r] = name]
           /\ request' = [request EXCEPT ![r] = rq]
           /\ fwargs' = [fwargs EXCEPT ![r] = fa]
           /\ IF rt.wrapped
              THEN /\ scope' = [scope EXCEPT ![scope_of(r)] = request_scope(rt)]
                   /\ pc' = [pc EXCEPT ![r] = "created"]
                   /\ UNCHANGED <<called, hres, leaving, outcome>>
              ELSE /\ CallHandler(r, rt.fn, fa, "done")
                   /\ outcome' = [outcome EXCEPT ![r] = hres'[r]]
                   /\ UNCHANGED <<scope, leaving>>
    /\ UNCHANGED <<routes, builds, shared, lastSet, counter, started, ncomposed, inflight, cleanLog>>

\* Variant that starts the agent without having pushed the request.
EnterPush_without_push(r) ==
    /\ pc[r] = "created"
    /\ scope' = [scope EXCEPT ![scope_of(r)].state = "active"]
    /\ pc' = [pc EXCEPT ![r] = "agent"]
    /\ UNCHANGED <<routes, builds, shared, lastSet, counter, hn, request, fwargs, started,
                   ncomposed, inflight, called, hres, leaving, outcome, cleanLog>>

\* Variant that pushes the request into the parent of the request scope.
EnterPush_into_parent(r) ==
    /\ pc[r] = "created"
    /\ LET sc == scope[scope_of(r)]
       IN  IF sc.parent # "none"
           THEN /\ shared' = [shared EXCEPT ![sc.parent] = push_value(@, "Request", request[r])]
                /\ scope' = [scope EXCEPT ![scope_of(r)].state = "active"]
           ELSE /\ scope' = [scope EXCEPT ![scope_of(r)] =
                         push([@ EXCEPT !.state = "active"], "Request", request[r])]
                /\ UNCHANGED shared
    /\ pc' = [pc EXCEPT ![r] = "agent"]
    /\ UNCHANGED <<routes, builds, lastSet, counter, hn, request, fwargs, started, ncomposed,
                   inflight, called, hres, leaving, outcome, cleanLog>>

\* async with scope: scope.push(Value(Request, request))
EnterPush(r) ==
    /\ pc[r] = "created"
    /\ scope' = [scope EXCEPT ![scope_of(r)] = push([@ EXCEPT !.state = "active"], "Request", request[r])]
    /\ pc' = [pc EXCEPT ![r] = "agent"]
    /\ UNCHANGED <<routes, builds, shared, lastSet, counter, hn, request, fwargs, started, ncomposed,
                   inflight, called, hres, leaving, outcome, cleanLog>>

----------------------------------------------------------------------------
\* agent.run(local_scope=scope, mapped_scopes={}): the compiled closure is
\* executed against the scope, a node once its dependencies are available.

Ready(r, n) ==
    /\ pc[r] = "agent"
    /\ n \in Rt(r).agent.closure \ started[r]
    /\ \A d \in Deps(n) : retrieve(scope[scope_of(r)], d) # None

\* The value __compose__ of node n produces against scope sc.
ComposeValue(n, sc) ==
    CASE n = "A" -> IntV(10)
      [] n = "B" -> IntV(retrieve(sc, "A").i * 2)
      [] n = "Counter" -> IntV(counter + 1)
      [] n = "Res" -> StrV("res")
      [] n = "Async" -> StrV("GET")
      [] n = "CurrentUser" -> StrV(retrieve(sc, "Request").s)
      [] n = "UserFlags" -> FlagsV(retrieve(sc, "FlagService"), retrieve(sc, "CurrentUser"))
      [] n = "Tx" -> StrV("tx")
      [] n = "Lock" -> StrV("lock")

\* CurrentUser raises HTTPException(401) when the x-user header is missing.
ComposeRaises(n, sc) == n = "CurrentUser" /\ retrieve(sc, "Request").s = ""

\* A plain or generator __compose__ runs: its value is stored under the
\* node type; a generator's post-yield code is queued as a cleanup.
Compose(r, n) ==
    /\ Ready(r, n)
    /\ Style(n) \in {"sync", "gen"}
    /\ started' = [started EXCEPT ![r] = @ \cup {n}]
    /\ ncomposed' = [ncomposed EXCEPT ![scope_of(r)][n] = @ + 1]
    /\ LET t == scope_of(r)
           sc == scope[t]
       IN  IF ComposeRaises(n, sc)
           THEN /\ leaving' = [leaving EXCEPT ![r] = Raised("HTTP401")]
                /\ pc' = [pc EXCEPT ![r] = "exit"]
                /\ inflight' = [inflight EXCEPT ![r] = {}]
                /\ UNCHANGED <<scope, counter>>
           ELSE /\ scope' = [scope EXCEPT ![t] =
                       [push(sc, n, ComposeValue(n, sc)) EXCEPT
                           !.cleanups = IF Style(n) = "gen" THEN Append(@, n) ELSE @,
                           !.acquired = IF Style(n) = "gen" THEN Append(@, n) ELSE @]]
                /\ counter' = IF n = "Counter" THEN counter + 1 ELSE counter
                /\ UNCHANGED <<leaving, pc, inflight>>
    /\ UNCHANGED <<routes, builds, shared, lastSet, hn, request, fwargs, called, hres,
                   outcome, cleanLog>>

\* A coroutine __compose__ is entered and suspends.
ComposeBegin(r, n) ==
    /\ Ready(r, n)
    /\ Style(n) = "async"
    /\ started' = [started EXCEPT ![r] = @ \cup {n}]
    /\ ncomposed' = [ncomposed EXCEPT ![scope_of(r)][n] = @ + 1]
    /\ inflight' = [inflight EXCEPT ![r] = @ \cup {n}]
    /\ UNCHANGED <<routes, builds, shared, lastSet, counter, pc, hn, request, fwargs, scope,
                   called, hres, leaving, outcome, cleanLog>>

\* A suspended __compose__ completes and its value is stored.
ComposeEnd(r, n) ==
    /\ pc[r] = "agent"
    /\ n \in inflight[r]
    /\ inflight' = [inflight EXCEPT ![r] = @ \ {n}]
    /\ LET t == scope_of(r)
       IN  scope' = [scope EXCEPT ![t] = push(@, n, ComposeValue(n, scope[t]))]
    /\ UNCHANGED <<routes, builds, shared, lastSet, counter, pc, hn, request, fwargs, started, ncomposed,
                   called, hres, leaving, outcome, cleanLog>>

\* Variant that does not wait for the run to finish.
RunReturned_not_awaited(r) == pc[r] = "agent"

\* agent.run has returned: every node of the closure has been composed.
RunReturned(r) ==
    /\ pc[r] = "agent"
    /\ Rt(r).agent.closure \subseteq started[r]
    /\ inflight[r] = {}

\* getattr(node_type, "__type__", node_type)
out_type(node_type) == node_type

\* Variant that binds None when the lookup misses.
resolved_binding_none(np, sc, kwargs) ==
    [name \in (DOMAIN kwargs) \cup (DOMAIN np) |->
        IF name \in DOMAIN np THEN retrieve(sc, out_type(np[name])) ELSE kwargs[name]]

\* resolved = dict(kwargs) plus, for every node parameter whose value type
\* is found in the scope, that value under the parameter's name.
resolved(np, sc, kwargs) ==
    [name \in (DOMAIN kwargs) \cup {x \in DOMAIN np : retrieve(sc, out_type(np[x])) # None} |->
        IF name \in DOMAIN np /\ retrieve(sc, out_type(np[name])) # None
        THEN retrieve(sc, out_type(np[name]))
        ELSE kwargs[name]]

\* Variant that leaves the async-with statement before calling the handler.
ResolveAndCall_outside_with(r) ==
    /\ RunReturned(r)
    /\ LET rt == Rt(r)
           c == scope[scope_of(r)].cleanups
       IN  /\ CallHandler(r, rt.fn, resolved(rt.node_params, scope[scope_of(r)], wrapper_kwargs(fwargs[r])), "exit")
           /\ cleanLog' = [cleanLog EXCEPT ![r] = @ \o [j \in 1..Len(c) |-> c[Len(c) + 1 - j]]]
           /\ scope' = [scope EXCEPT ![scope_of(r)].cleanups = <<>>]
    /\ leaving' = [leaving EXCEPT ![r] = hres'[r]]
    /\ UNCHANGED <<routes, builds, shared, lastSet, counter, hn, request, fwargs,
                   started, ncomposed, inflight, outcome>>

\* _resolve after the agent run: the arguments are assembled and the
\* handler is called, still inside the async-with body.
ResolveAndCall(r) ==
    /\ RunReturned(r)
    /\ LET rt == Rt(r)
       IN  CallHandler(r, rt.fn, resolved(rt.node_params, scope[scope_of(r)], wrapper_kwargs(fwargs[r])), "exit")
    /\ leaving' = [leaving EXCEPT ![r] = hres'[r]]
    /\ UNCHANGED <<routes, builds, shared, lastSet, counter, hn, request, fwargs, scope,
                   started, ncomposed, inflight, outcome, cleanLog>>

\* Where a request goes when its handler has ended.
AfterHandler(r) == IF Rt(r).wrapped THEN "exit" ELSE "done"

\* Variant that disposes the scope on the normal path only.
HandlerEnds_no_dispose_on_error(r, res) ==
    /\ pc[r] = "handler"
    /\ hres' = [hres EXCEPT ![r] = res]
    /\ IF Rt(r).wrapped /\ res.kind = "result"
       THEN /\ pc' = [pc EXCEPT ![r] = "exit"]
            /\ leaving' = [leaving EXCEPT ![r] = res] /\ UNCHANGED outcome
       ELSE /\ pc' = [pc EXCEPT ![r] = "done"]
            /\ outcome' = [outcome EXCEPT ![r] = res] /\ UNCHANGED leaving
    /\ UNCHANGED <<routes, builds, shared, lastSet, counter, hn, request, fwargs, scope,
                   started, ncomposed, inflight, called, cleanLog>>

HandlerEnds(r, res) ==
    /\ pc[r] = "handler"
    /\ hres' = [hres EXCEPT ![r] = res]
    /\ pc' = [pc EXCEPT ![r] = AfterHandler(r)]
    /\ IF Rt(r).wrapped
       THEN leaving' = [leaving EXCEPT ![r] = res] /\ UNCHANGED outcome
       ELSE outcome' = [outcome EXCEPT ![r] = res] /\ UNCHANGED leaving
    /\ UNCHANGED <<routes, builds, shared, lastSet, counter, hn, request, fwargs, scope,
                   started, ncomposed, inflight, called, cleanLog>>

\* return await result
HandlerReturn(r) == HandlerEnds(r, Returned(called[r].args))

\* The awaited handler raises.
HandlerRaise(r) == HandlerEnds(r, Raised("HandlerError"))

\* The request task is cancelled while the handler is suspended.
CancelHandler(r) == HandlerEnds(r, Raised("Cancelled"))

\* The request task is cancelled while the agent run is suspended.
CancelAgent(r) ==
    /\ pc[r] = "agent"
    /\ inflight[r] # {}
    /\ inflight' = [inflight EXCEPT ![r] = {}]
    /\ leaving' = [leaving EXCEPT ![r] = Raised("Cancelled")]
    /\ pc' = [pc EXCEPT ![r] = "exit"]
    /\ UNCHANGED <<routes, builds, shared, lastSet, counter, hn, request, fwargs, scope,
                   started, ncomposed, called, hres, outcome, cleanLog>>

\* Variant that runs the pending cleanups first in, first out.
Cleanup_fifo(r) ==
    /\ pc[r] = "exit"
    /\ scope[scope_of(r)].cleanups # <<>>
    /\ LET c == scope[scope_of(r)].cleanups
       IN  /\ cleanLog' = [cleanLog EXCEPT ![r] = Append(@, c[1])]
           /\ scope' = [scope EXCEPT ![scope_of(r)].cleanups = SubSeq(c, 2, Len(c))]
    /\ UNCHANGED <<routes, builds, shared, lastSet, counter, pc, hn, request, fwargs, started, ncomposed,
                   inflight, called, hres, leaving, outcome>>

\* Scope.__aexit__: the pending cleanups run last in, first out.
Cleanup(r) ==
    /\ pc[r] = "exit"
    /\ scope[scope_of(r)].cleanups # <<>>
    /\ LET c == scope[scope_of(r)].cleanups
       IN  /\ cleanLog' = [cleanLog EXCEPT ![r] = Append(@, c[Len(c)])]
           /\ scope' = [scope EXCEPT ![scope_of(r)].cleanups = SubSeq(c, 1, Len(c) - 1)]
    /\ UNCHANGED <<routes, builds, shared, lastSet, counter, pc, hn, request, fwargs, started, ncomposed,
                   inflight, called, hres, leaving, outcome>>

\* Variant that turns an exception of the body into another one.
Leave_translating_errors(r) ==
    /\ pc[r] = "exit"
    /\ scope[scope_of(r)].cleanups = <<>>
    /\ scope' = [scope EXCEPT ![scope_of(r)].state = "disposed"]
    /\ outcome' = [outcome EXCEPT ![r] =
            IF leaving[r].kind = "error" THEN Raised("HTTP500") ELSE leaving[r]]
    /\ pc' = [pc EXCEPT ![r] = "done"]
    /\ UNCHANGED <<routes, builds, shared, lastSet, counter, hn, request, fwargs, started,
                   ncomposed, inflight, called, hres, leaving, cleanLog>>

\* The async-with statement is left: the scope is disposed and the result
\* or the exception of the body reaches the framework.
Leave(r) ==
    /\ pc[r] = "exit"
    /\ scope[scope_of(r)].cleanups = <<>>
    /\ scope' = [scope EXCEPT ![scope_of(r)].state = "disposed"]
    /\ outcome' = [outcome EXCEPT ![r] = leaving[r]]
    /\ pc' = [pc EXCEPT ![r] = "done"]
    /\ UNCHANGED <<routes, builds, shared, lastSet, counter, hn, request, fwargs, started, ncomposed,
                   inflight, called, hres, leaving, cleanLog>>

\* The steps of the requests in flight.
RequestStep ==
    \/ \E r \in Reqs, name \in DOMAIN routes, page \in Pages :
          \E hdr \in HeadersFor(routes[name]) : Call(r, name, hdr, page)
    \/ \E r \in Reqs : EnterPush(r)
    \/ \E r \in Reqs, n \in NodeNames : Compose(r, n)
    \/ \E r \in Reqs, n \in NodeNames : ComposeBegin(r, n)
    \/ \E r \in Reqs, n \in NodeNames : ComposeEnd(r, n)
    \/ \E r \in Reqs : ResolveAndCall(r)
    \/ \E r \in Reqs : HandlerReturn(r)
    \/ \E r \in Reqs : HandlerRaise(r)
    \/ \E r \in Reqs : CancelHandler(r)
    \/ \E r \in Reqs : CancelAgent(r)
    \/ \E r \in Reqs : Cleanup(r)
    \/ \E r \in Reqs : Leave(r)

\* An application that registers one of the handlers and serves requests.
Next ==
    \/ \E fn \in Handlers : Register(fn)
    \/ RequestStep

Spec == Init /\ [][Next]_vars

\* An application whose setup code also pushes values into the shared
\* scope before it serves a route chained to it or a standalone one.
SharedInputs == {<<"FlagService", SvcV(2)>>, <<"Request", ReqV(0, "stale")>>}
SharedHandlers == {fn \in Handlers : fn.name \in {"config", "cleanup2"}}

NextShared ==
    \/ \E x \in SharedInputs : set("shared", x[1], x[2])
    \/ \E fn \in SharedHandlers : Register(fn)
    \/ RequestStep

SpecShared == Init /\ [][NextShared]_vars

\* Setup code on its own: any sequence of set calls on the two scopes.
ScopeInputs == {"FlagService", "Request", "A"} \X {SvcV(2), IntV(7)}

NextScopes == \E s \in ScopeIds, x \in ScopeInputs : set(s, x[1], x[2])

SpecScopes == Init /\ [][NextScopes]_vars

TypeOK ==
    /\ builds \in 0..1
    /\ \A r \in Reqs : pc[r] \in {"idle", "created", "agent", "handler", "exit", "done"}

\* The assembly of the arguments on its own: request 1 of a wrapped route
\* stands where its agent run has returned, with a request scope that holds
\* a value for any subset of the node types.
InitResolve ==
    /\ \E fn \in {h \in Handlers : decorator(h).wrapped}, page \in Pages,
          present \in SUBSET NodeNames :
          LET rt == decorator(fn)
              rq == ReqV(1, "alice")
          IN  /\ routes = Put(EmptyDict, fn.name, rt)
              /\ hn = [r \in Reqs |-> IF r = 1 THEN fn.name ELSE "-"]
              /\ request = [r \in Reqs |-> IF r = 1 THEN rq ELSE None]
              /\ fwargs = [r \in Reqs |->
                      IF r = 1 THEN framework_args(rt.sig, rq, page) ELSE EmptyDict]
              /\ scope = [r \in Reqs |->
                      IF r = 1
                      THEN [request_scope(rt) EXCEPT
                               !.state = "active",
                               !.vals = [t \in Types |->
                                   IF t = "Request" THEN rq
                                   ELSE IF t \in present THEN StrV(t) ELSE None]]
                      ELSE NoScope]
              /\ started = [r \in Reqs |-> IF r = 1 THEN rt.agent.closure ELSE {}]
    /\ builds = 1
    /\ shared = SetupScopes
    /\ lastSet = SetupScopes
    /\ counter = 0
    /\ pc = [r \in Reqs |-> IF r = 1 THEN "agent" ELSE "idle"]
    /\ inflight = [r \in Reqs |-> {}]
    /\ ncomposed = [r \in Reqs |-> [n \in NodeNames |-> 0]]
    /\ called = [r \in Reqs |-> NotCalled]
    /\ hres = [r \in Reqs |-> NoResult]
    /\ leaving = [r \in Reqs |-> NoResult]
    /\ outcome = [r \in Reqs |-> NoResult]
    /\ cleanLog = [r \in Reqs |-> <<>>]

NextResolve == \E r \in Reqs : ResolveAndCall(r)

SpecResolve == InitResolve /\ [][NextResolve]_vars

----------------------------------------------------------------------------
\* Properties.

Active(r) == hn[r] \in DOMAIN routes
Wrapped(r) == Active(r) /\ Rt(r).wrapped
NodeParamNames(r) == DOMAIN Rt(r).node_params

\* Number of occurrences of x in sequence q.
Count(q, x) == Cardinality({j \in DOMAIN q : q[j] = x})

\* C1: on a route whose handler takes a generator-style node, the handler
\* is called with the value the generator yielded, and the post-yield
\* cleanup runs only once the handler has ended and before the wrapper hands
\* its result to the framework, never while the handler is executing.
C1_CleanupAfterHandler ==
    \A r \in Reqs : Wrapped(r) =>
        /\ called[r].made =>
              \A x \in NodeParamNames(r) :
                  Style(Rt(r).node_params[x]) = "gen" =>
                      /\ x \in DOMAIN called[r].args
                      /\ called[r].args[x] = ComposeValue(Rt(r).node_params[x], scope[r])
        /\ pc[r] = "handler" => cleanLog[r] = <<>>
        /\ (cleanLog[r] # <<>> /\ called[r].made) => hres[r].kind # "pending"
        /\ outcome[r].kind # "pending" =>
              \A n \in NodeNames :
                  (Style(n) = "gen" /\ n \in started[r]) => Count(cleanLog[r], n) = 1

C1_Witness ==
    \E r \in Reqs :
        /\ hn[r] = "cleanup" /\ pc[r] = "done"
        /\ called[r].args = [x \in {"r"} |-> StrV("res")]
        /\ hres[r].kind = "result" /\ outcome[r] = hres[r]
        /\ cleanLog[r] = <<"Res">>

\* C2: whichever way the wrapper is left (handler returns, handler raises,
\* a composition raises, the task is cancelled while suspended), the
\* request scope is disposed and every cleanup registered in it has run
\* exactly once; no request ends with a pending cleanup.
C2_DisposedOnEveryExit ==
    \A r \in Reqs : (Wrapped(r) /\ pc[r] = "done") =>
        /\ scope[r].state = "disposed"
        /\ scope[r].cleanups = <<>>
        /\ \A n \in NodeNames :
              Count(cleanLog[r], n) = IF Style(n) = "gen" /\ n \in started[r] THEN 1 ELSE 0

C2_Witness ==
    \E r1, r2 \in Reqs :
        /\ pc[r1] = "done" /\ outcome[r1] = Raised("Cancelled") /\ ~called[r1].made
        /\ cleanLog[r1] = <<"Res">>
        /\ pc[r2] = "done" /\ outcome[r2] = Raised("HandlerError")
        /\ cleanLog[r2] = <<"Res">>

\* C3: every request has a request scope of its own and its own agent run:
\* the Counter node is composed afresh once per request, so the requests
\* of a route see pairwise different counter values, the first one 1 and
\* the next one 2, and each handler gets the value of its own request.
C3_FreshPerRequest ==
    /\ counter = Cardinality({r \in Reqs : "Counter" \in started[r]})
    /\ \A r \in Reqs : (Wrapped(r) /\ pc[r] # "idle") => scope[r].state # "absent"
    /\ \A r \in Reqs : (Wrapped(r) /\ called[r].made) =>
          \A x \in NodeParamNames(r) : Rt(r).node_params[x] = "Counter" =>
              /\ x \in DOMAIN called[r].args
              /\ called[r].args[x].i \in 1..counter
              /\ \A q \in Reqs \ {r} :
                    (called[q].made /\ x \in DOMAIN called[q].args)
                        => called[q].args[x] # called[r].args[x]

C3_Witness ==
    \E r1, r2 \in Reqs :
        /\ hn[r1] = "indep" /\ hn[r2] = "indep"
        /\ pc[r1] = "done" /\ pc[r2] = "done"
        /\ hres[r1].kind = "result" /\ hres[r2].kind = "result"
        /\ called[r1].made /\ called[r1].args["c"] = IntV(1)
        /\ called[r2].made /\ called[r2].args["c"] = IntV(2)

\* C4: the request scope of a route registered with a shared scope is a
\* child of it and resolves a type the shared scope holds to the shared
\* value, unless the request scope holds its own value for the type (the
\* pushed request), which shadows the shared one for that request only;
\* without a shared scope the request scope has no parent.
C4_SharedScopeChain ==
    \A r \in Reqs : (Wrapped(r) /\ scope[r].state # "absent") =>
        /\ scope[r].parent = (IF Rt(r).scope = "shared" THEN "shared" ELSE "none")
        /\ Rt(r).scope = "shared" =>
              /\ retrieve(scope[r], "FlagService") = shared["shared"]["FlagService"]
              /\ scope[r].vals["UserFlags"] # None =>
                    scope[r].vals["UserFlags"].i = shared["shared"]["FlagService"].i
              /\ scope[r].state = "active" => retrieve(scope[r], "Request") = request[r]
              /\ scope[r].state = "new" => retrieve(scope[r], "Request") = shared["shared"]["Request"]
        /\ Rt(r).scope = "none" => retrieve(scope[r], "FlagService") = None

C4_Witness ==
    \E r1, r2 \in Reqs :
        /\ r1 # r2
        /\ shared["shared"]["FlagService"] = SvcV(2) /\ shared["shared"]["Request"] = ReqV(0, "stale")
        /\ scope[r1].parent = "shared" /\ scope[r1].vals["UserFlags"] = FlagsV(SvcV(2), StrV("alice"))
        /\ retrieve(scope[r1], "Request") = request[r1]
        /\ scope[r2].state = "new" /\ retrieve(scope[r2], "Request") = ReqV(0, "stale")

FnParams(fn) == {fn.params[j] : j \in DOMAIN fn.params}
SigNames(rt) == {rt.sig[j].name : j \in DOMAIN rt.sig}

\* C5: the wrapper calls the handler with every framework-native argument
\* as the framework supplied it (same name, same value) and with every
\* node-injected parameter bound to its resolved value, and the wrapper's
\* result is the handler's result.
C5_MergedArguments ==
    \A r \in Reqs : (Wrapped(r) /\ called[r].made) =>
        /\ \A p \in FnParams(Rt(r).fn) : p.name \notin NodeParamNames(r) =>
              /\ p.name \in DOMAIN called[r].args
              /\ called[r].args[p.name] = fwargs[r][p.name]
        /\ \A x \in NodeParamNames(r) :
              /\ x \in DOMAIN called[r].args
              /\ called[r].args[x] = scope[r].vals[Rt(r).node_params[x]]
        /\ (pc[r] = "done" /\ hres[r].kind = "result") => outcome[r] = hres[r]

\* C6: a handler that declares a parameter for the ambient request next
\* to a node-injected one receives the request object in that parameter.
C6_RequestParameterReceived ==
    \A r \in Reqs : (Wrapped(r) /\ called[r].made) =>
        \A p \in FnParams(Rt(r).fn) : p.kind = "request" =>
            /\ p.name \in DOMAIN called[r].args
            /\ called[r].args[p.name] = request[r]

\* C7 as stated: a parameter is node-injected exactly when its declared
\* type is a Node Type or a generic wrapper (e.g. optional) around one.
C7_GenericWrapperIsNode ==
    \A name \in DOMAIN routes :
        \A p \in FnParams(routes[name].fn) :
            p.name \in DOMAIN routes[name].node_params
                <=> (p.kind = "node" \/ (p.kind = "generic" /\ p.of \in NodeNames))

\* C7 amended: a parameter is node-injected exactly when its declared type
\* is itself a class that is a Node Type; every other parameter, a generic
\* wrapper around a Node Type included, is framework-native and is left
\* to the framework.
C7_OnlyNodeClasses ==
    \A name \in DOMAIN routes :
        \A p \in FnParams(routes[name].fn) :
            /\ p.name \in DOMAIN routes[name].node_params <=> p.kind = "node"
            /\ p.kind = "node" => routes[name].node_params[p.name] = p.of
            /\ p.kind # "node" => p.name \in SigNames(routes[name])
            /\ p.kind = "node" => p.name \notin SigNames(routes[name])

C7_Witness ==
    \E r \in Reqs :
        /\ hn[r] = "optmix" /\ DOMAIN Rt(r).node_params = {"m"}
        /\ called[r].made
        /\ called[r].args = [x \in {"o", "m"} |-> IF x = "o" THEN None ELSE IntV(10)]

\* C8: for a handler without node-injected parameters nodnod_route gives
\* back the handler itself: no agent is built, no request scope is created
\* or disposed, and a request is the direct call of the handler with the
\* framework's arguments.
C8_PassThrough ==
    \A name \in DOMAIN routes : DOMAIN routes[name].node_params = {} =>
        /\ ~routes[name].wrapped
        /\ ~routes[name].agent.built
        /\ routes[name].sig = routes[name].fn.params
        /\ builds = 0
        /\ \A r \in Reqs : hn[r] = name =>
              /\ scope[r] = NoScope /\ cleanLog[r] = <<>> /\ started[r] = {}
              /\ pc[r] \in {"handler", "done"}
              /\ called[r].made /\ called[r].args = fwargs[r]
              /\ outcome[r] = hres[r]

C8_Witness ==
    \E r \in Reqs :
        /\ hn[r] = "passthrough" /\ pc[r] = "done"
        /\ outcome[r] = Returned([x \in {"page"} |-> IntV(5)])
        /\ scope[r] = NoScope /\ builds = 0

\* C9: within a request a node's composition starts only when every node
\* it depends on has been composed, for every node of the closure of the
\* requested types; a handler requesting B (= A * 2, A = 10) receives 20.
C9_DependenciesFirst ==
    \A r \in Reqs : Wrapped(r) =>
        /\ \A n \in started[r] :
              /\ n \in Rt(r).agent.closure
              /\ \A d \in Deps(n) \cap NodeNames :
                    d \in started[r] \ inflight[r] /\ scope[r].vals[d] # None
        /\ (called[r].made /\ hn[r] = "chain") => called[r].args = [x \in {"b"} |-> IntV(20)]

C9_Witness ==
    \E r \in Reqs :
        /\ hn[r] = "chain" /\ pc[r] = "done"
        /\ scope[r].vals["A"] = IntV(10) /\ scope[r].vals["B"] = IntV(20)
        /\ outcome[r] = Returned([x \in {"b"} |-> IntV(20)])

\* C10: the handler is invoked only after the agent run has returned with
\* every requested node type resolved: two independent requested nodes are
\* both settled before the handler starts, in either evaluation order and
\* also when a composition suspends.
C10_ResolvedBeforeHandler ==
    \A r \in Reqs : (Wrapped(r) /\ called[r].made) =>
        /\ Rt(r).agent.closure \subseteq started[r]
        /\ inflight[r] = {}
        /\ \A x \in NodeParamNames(r) :
              /\ scope[r].vals[Rt(r).node_params[x]] # None
              /\ x \in DOMAIN called[r].args
              /\ called[r].args[x] = scope[r].vals[Rt(r).node_params[x]]

C10_Witness ==
    \E r \in Reqs :
        /\ hn[r] = "indep" /\ pc[r] = "handler"
        /\ called[r].args = [x \in {"a", "c"} |-> IF x = "a" THEN StrV("GET") ELSE IntV(2)]
        /\ \E q \in Reqs : pc[q] = "agent" /\ inflight[q] = {"Async"} /\ "Counter" \in started[q]

\* A __compose__ of request r has raised: CurrentUser was entered on a
\* request without the x-user header.
CompositionRaised(r) == "CurrentUser" \in started[r] /\ request[r].s = ""

\* C11: when a composition function raises, the resolution of that request
\* is aborted (no further node is composed), the handler is never invoked,
\* and the same error leaves the wrapper, neither caught nor translated.
C11_CompositionErrorPropagates ==
    \A r \in Reqs : (Wrapped(r) /\ CompositionRaised(r)) =>
        /\ pc[r] \in {"exit", "done"}
        /\ ~called[r].made /\ hres[r] = NoResult
        /\ started[r] = {"CurrentUser"} /\ inflight[r] = {}
        /\ scope[r].vals["CurrentUser"] = None
        /\ leaving[r] = Raised("HTTP401")
        /\ outcome[r] = (IF pc[r] = "done" THEN Raised("HTTP401") ELSE NoResult)

C11_Witness ==
    \E r \in Reqs :
        /\ hn[r] = "config" /\ pc[r] = "done"
        /\ CompositionRaised(r) /\ "UserFlags" \notin started[r]
        /\ ~called[r].made /\ outcome[r] = Raised("HTTP401")
        /\ scope[r].state = "disposed"

\* C12: after the agent run every node-injected parameter is looked up in
\* the request scope by its value type: a value found is bound under the
\* parameter's name; a miss is no error, the call is made with that
\* argument left out and the other arguments as they are.
C12_LookupMissOmitsArgument ==
    \A r \in Reqs : (Wrapped(r) /\ pc[r] # "agent" /\ started[r] # {}) =>
        /\ called[r].made
        /\ DOMAIN called[r].args \subseteq NodeParamNames(r) \cup DOMAIN wrapper_kwargs(fwargs[r])
        /\ \A x \in NodeParamNames(r) :
              LET v == retrieve(scope[r], out_type(Rt(r).node_params[x]))
              IN  IF v # None
                  THEN x \in DOMAIN called[r].args /\ called[r].args[x] = v
                  ELSE x \notin DOMAIN called[r].args
        /\ \A y \in DOMAIN wrapper_kwargs(fwargs[r]) :
              y \in DOMAIN called[r].args /\ called[r].args[y] = fwargs[r][y]

C12_Witness ==
    \E r \in Reqs :
        /\ hn[r] = "config" /\ called[r].made
        /\ scope[r].vals["CurrentUser"] = StrV("CurrentUser")
        /\ scope[r].vals["UserFlags"] = None
        /\ called[r].args = [x \in {"user"} |-> StrV("CurrentUser")]

\* C13: the request object of a request is in its request scope before its
\* agent starts, so a composition function that takes the request reads the
\* request being served, also when requests to the route interleave.
C13_OwnRequestInScope ==
    \A r \in Reqs : Wrapped(r) =>
        /\ request[r].i = r
        /\ (pc[r] \in {"agent", "handler", "exit", "done"} \/ started[r] # {}) =>
              /\ scope[r].vals["Request"] = request[r]
              /\ retrieve(scope[r], "Request") = request[r]
        /\ scope[r].vals["CurrentUser"] \in {None, StrV(request[r].s)}
        /\ called[r].made =>
              \A x \in NodeParamNames(r) \cap DOMAIN called[r].args :
                  Rt(r).node_params[x] = "CurrentUser" => called[r].args[x] = StrV(request[r].s)

C13_Witness ==
    \E r1, r2 \in Reqs :
        /\ pc[r1] = "handler" /\ pc[r2] = "handler"
        /\ request[r1].s = "alice" /\ request[r2].s = "bob"
        /\ scope[r1].vals["CurrentUser"] = StrV("alice")
        /\ scope[r2].vals["CurrentUser"] = StrV("bob")
        /\ called[r1].args["user"] = StrV("alice") /\ called[r2].args["user"] = StrV("bob")

\* C14: within one request scope a node type is composed at most once: a
\* node requested by the handler and required by another requested node
\* is composed once, and both consumers get that one value.
C14_ComposedOncePerScope ==
    \A r \in Reqs : Wrapped(r) =>
        /\ \A n \in NodeNames :
              /\ ncomposed[r][n] <= 1
              /\ ncomposed[r][n] = 1 <=> n \in started[r]
        /\ scope[r].vals["UserFlags"] # None =>
              scope[r].vals["UserFlags"].s = scope[r].vals["CurrentUser"].s
        /\ (called[r].made /\ hn[r] = "config") =>
              /\ called[r].args["user"] = scope[r].vals["CurrentUser"]
              /\ called[r].args["flags"] = scope[r].vals["UserFlags"]
              /\ called[r].args["flags"].s = called[r].args["user"].s

C14_Witness ==
    \E r \in Reqs :
        /\ hn[r] = "config" /\ pc[r] = "done" /\ hres[r].kind = "result"
        /\ ncomposed[r]["CurrentUser"] = 1 /\ ncomposed[r]["UserFlags"] = 1
        /\ called[r].args["user"] = StrV("bob")
        /\ called[r].args["flags"] = FlagsV(SvcV(1), StrV("bob"))

\* C15: the agent is built exactly once per node-injecting route, when the
\* route is registered, over the node types of the handler's node
\* parameters; requests, however many, build nothing and run that agent.
C15_BuiltOncePerRoute ==
    /\ builds = Cardinality({name \in DOMAIN routes : routes[name].wrapped})
    /\ \A name \in DOMAIN routes :
          LET rt == routes[name]
          IN  /\ rt.agent.built <=> rt.wrapped
              /\ rt.wrapped =>
                    rt.agent = build({ParamOf(rt.fn, x).of : x \in DOMAIN rt.node_params})
    /\ \A r \in Reqs : Wrapped(r) =>
          /\ started[r] \subseteq Rt(r).agent.closure
          /\ called[r].made => Rt(r).agent.closure \subseteq started[r]

C15_Witness ==
    /\ builds = 1
    /\ \A r \in Reqs : Wrapped(r) /\ pc[r] = "done" /\ called[r].made

Reverse(q) == [j \in 1..Len(q) |-> q[Len(q) + 1 - j]]

\* C16: the cleanups of the generator nodes resolved in one request scope
\* run in the reverse of the order the nodes were acquired, so a node is
\* cleaned up before any node it depends on.
C16_CleanupsInReverseOrder ==
    \A r \in Reqs : Wrapped(r) =>
        /\ scope[r].cleanups \o Reverse(cleanLog[r]) = scope[r].acquired
        /\ pc[r] = "done" => cleanLog[r] = Reverse(scope[r].acquired)
        /\ \A i, j \in DOMAIN cleanLog[r] :
              cleanLog[r][j] \in Deps(cleanLog[r][i]) => i < j

C16_Witness ==
    \E r \in Reqs :
        /\ hn[r] = "gens" /\ pc[r] = "done"
        /\ scope[r].acquired = <<"Res", "Lock", "Tx">>
        /\ cleanLog[r] = <<"Tx", "Lock", "Res">>

\* C17: after any sequence of set calls, get(T) on a shared scope is the
\* value of the latest set(T, v) on that scope and None for a type never
\* set on it; a set changes nothing for another type or another scope.
C17_GetReturnsLatestSet ==
    \A s \in ScopeIds, t \in Types :
        /\ get(s, t) = lastSet[s][t]
        /\ (s = "other" /\ t \notin {x[1] : x \in ScopeInputs}) => get(s, t) = None

C17_Witness ==
    /\ get("shared", "FlagService") = SvcV(2)
    /\ get("other", "FlagService") = IntV(7)
    /\ get("shared", "A") = IntV(7)
    /\ get("other", "A") = None
    /\ get("other", "Request") = SvcV(2)

\* C18: handling requests never changes the shared scope: whatever requests
\* ran or are running, it holds exactly what the setup code pushed; the
\* ambient request and the values resolved for a request are in that
\* request's own scope only.
C18_RequestsLeaveSharedScope ==
    /\ \A t \in Types :
          shared["shared"][t] = lastSet["shared"][t]
    /\ shared["other"] = NoVals
    /\ \A n \in NodeNames : shared["shared"][n] = None
    /\ \A r \in Reqs : Wrapped(r) => shared["shared"]["Request"] # request[r]
    /\ \A r \in Reqs : \A t \in Types :
          (Wrapped(r) /\ scope[r].vals[t] # None) =>
              (t = "Request" \/ t \in started[r])

C18_Witness ==
    /\ \A r \in Reqs :
          /\ hn[r] = "config" /\ pc[r] = "done" /\ hres[r].kind = "result"
          /\ scope[r].parent = "shared"
          /\ scope[r].vals["Request"] = request[r]
          /\ scope[r].vals["UserFlags"] = FlagsV(SvcV(2), StrV(request[r].s))
    /\ request[1].s # request[2].s
    /\ shared["shared"]["Request"] = ReqV(0, "stale")
    /\ shared["shared"]["FlagService"] = SvcV(2)

====
